---- MODULE Spec2Model ----
(***************************************************************************)
(* Model of the actor dependency graph of leapp's `snactor discover`       *)
(* command (leapp/snactor/commands/discover.py): RepositoryGraph, its      *)
(* scans and subgraph extraction, and construct_graph_from_actors.         *)
(*                                                                         *)
(* Python's defaultdict is modelled as a function whose DOMAIN is the set  *)
(* of keys present; reading a missing key through __getitem__ inserts the  *)
(* key with the default value (touch), iterating with .items() or testing  *)
(* membership does not.                                                    *)
(***************************************************************************)
EXTENDS Integers, Sequences, FiniteSets, TLC

VARIABLES
    actor_definitions,  \* the descriptor list handed to construct_graph_from_actors
    graph,              \* the RepositoryGraph the operations are called on (self)
    resulting_graph,    \* the graph returned by the last make_subgraph_related_to
    leapp_entities,     \* argument of the last make_subgraph_related_to
    tight,              \* argument of the last make_subgraph_related_to
    seen_actors,        \* the visited set of the last make_subgraph_related_to
    pc,                 \* "new", "ready", "extracted", "scanning", "returned"
    built,              \* graph comes from construct_graph_from_actors (and extractions of it)
    depth,              \* number of successive extractions that led to graph
    scan,               \* the scan method being executed step by step
    start_at_actors,    \* its argument
    worklist,           \* its local worklist
    visited_actors,     \* its local visited set
    pushed              \* how often each actor was put on the worklist

vars == <<actor_definitions, graph, resulting_graph, leapp_entities, tight,
          seen_actors, pc, built, depth, scan, start_at_actors, worklist,
          visited_actors, pushed>>

----------------------------------------------------------------------------
(* Bounds *)

MaxDefs == 2
MaxEdges == 2
MaxSeeds == 2
MaxDepth == 1

\* The strings in play.  The message type "A" is named like the actor "A":
\* an entity string may be both a component name and an edge label.
ActorNames == {"A", "B", "C"}
MsgTypes == {"X", "A"}
Unknown == "Unknown"

Entities == ActorNames \cup MsgTypes \cup {Unknown}

ActorDefinition == [class_name : ActorNames, produces : SUBSET MsgTypes,
                    consumes : SUBSET MsgTypes]

ActorDefinitionLists == UNION {[1..n -> ActorDefinition] : n \in 0..MaxDefs}

EntitySets == {E \in SUBSET Entities : Cardinality(E) <= MaxSeeds}

----------------------------------------------------------------------------
(* defaultdict *)

EmptyMap == [k \in {} |-> {}]

\* defaultdict.__getitem__ on d[k]: the key is inserted with the default
\* value when it is missing.
touch(d, k, default) ==
    IF k \in DOMAIN d THEN d ELSE [x \in DOMAIN d \cup {k} |->
                                      IF x = k THEN default ELSE d[x]]

\* Sequences enumerating a set without repetition: the orders in which
\* Python may iterate over a set or over the keys of a dict.
Orders(S) == {f \in [1..Cardinality(S) -> S] : \A i, j \in DOMAIN f : f[i] = f[j] => i = j}

RECURSIVE SomeOrder(_)
SomeOrder(S) ==
    IF S = {} THEN <<>>
    ELSE LET x == CHOOSE y \in S : TRUE IN <<x>> \o SomeOrder(S \ {x})

----------------------------------------------------------------------------
(* RepositoryGraph *)

RepositoryGraph == [edges |-> EmptyMap, reverse_edges |-> EmptyMap, actors |-> {}]

add_edge_no_reverse(self, source_actor, msg, target_actor) ==
    LET e1 == touch(self.edges, source_actor, EmptyMap)
        t1 == touch(e1[source_actor], target_actor, {})
    IN [edges |-> [e1 EXCEPT ![source_actor] = [t1 EXCEPT ![target_actor] = @ \cup {msg}]],
        reverse_edges |-> self.reverse_edges,
        actors |-> self.actors \cup {source_actor, target_actor}]

add_edge(self, source_actor, msg, target_actor) ==
    LET e1 == touch(self.edges, source_actor, EmptyMap)
        t1 == touch(e1[source_actor], target_actor, {})
        r1 == touch(self.reverse_edges, target_actor, {})
    IN [edges |-> [e1 EXCEPT ![source_actor] = [t1 EXCEPT ![target_actor] = @ \cup {msg}]],
        reverse_edges |-> [r1 EXCEPT ![target_actor] = @ \cup {source_actor}],
        actors |-> self.actors \cup {source_actor, target_actor}]

\* The triples the generator yields; their order is the dicts' iteration order.
iter_edges(self) ==
    UNION {UNION {{<<source_actor, edge_msg, target_actor>> :
                       edge_msg \in self.edges[source_actor][target_actor]} :
                  target_actor \in DOMAIN self.edges[source_actor]} :
           source_actor \in DOMAIN self.edges}

----------------------------------------------------------------------------
(* construct_graph_from_actors *)

\* table[msg_type].add(actor_name) for every msg_type of msgs
table_add_overwrite(table, msgs, actor_name) ==
    [m \in DOMAIN table \cup msgs |->
        IF m \in msgs THEN {actor_name} ELSE table[m]]

table_add(table, msgs, actor_name) ==
    [m \in DOMAIN table \cup msgs |->
        (IF m \in DOMAIN table THEN table[m] ELSE {})
        \cup (IF m \in msgs THEN {actor_name} ELSE {})]

RECURSIVE build_tables_last_wins(_, _, _)
build_tables_last_wins(defs, i, tables) ==
    IF i > Len(defs) THEN tables
    ELSE IF \E j \in (i + 1)..Len(defs) : defs[j].class_name = defs[i].class_name
    THEN build_tables_last_wins(defs, i + 1, tables)
    ELSE build_tables_last_wins(defs, i + 1,
            [producers_table |-> table_add(tables.producers_table, defs[i].produces,
                                           defs[i].class_name),
             consumers_table |-> table_add(tables.consumers_table, defs[i].consumes,
                                           defs[i].class_name)])

\* the loop over actor_definitions, from descriptor i on
RECURSIVE build_tables(_, _, _)
build_tables(defs, i, tables) ==
    IF i > Len(defs) THEN tables
    ELSE build_tables(defs, i + 1,
            [producers_table |-> table_add(tables.producers_table, defs[i].produces,
                                           defs[i].class_name),
             consumers_table |-> table_add(tables.consumers_table, defs[i].consumes,
                                           defs[i].class_name)])

RECURSIVE add_edges(_, _)
add_edges(g, triples) ==
    IF triples = {} THEN g
    ELSE LET t == CHOOSE x \in triples : TRUE
         IN add_edges(add_edge(g, t[1], t[2], t[3]), triples \ {t})

construct_graph_from_actors(defs) ==
    LET tables == build_tables(defs, 1, [producers_table |-> EmptyMap,
                                         consumers_table |-> EmptyMap])
        spoken_messages == DOMAIN tables.producers_table \cap DOMAIN tables.consumers_table
        calls == UNION {{<<producer, msg_type, consumer>> :
                            consumer \in tables.consumers_table[msg_type],
                            producer \in tables.producers_table[msg_type]} :
                        msg_type \in spoken_messages}
    IN add_edges(RepositoryGraph, calls)

----------------------------------------------------------------------------
(* _collect_actors_for_entities *)

\* The (source, target) pairs of self.edges.items() and of the inner .items()
edge_pairs(self) ==
    UNION {{<<source_actor, target_actor>> : target_actor \in DOMAIN self.edges[source_actor]} :
           source_actor \in DOMAIN self.edges}

_collect_actors_swapped(self, entities) ==
    LET pairs(e) == IF e \in self.actors THEN {}
                    ELSE {p \in edge_pairs(self) : e \in self.edges[p[1]][p[2]]}
    IN [forward_actors |-> (entities \cap self.actors)
                           \cup UNION {{p[1] : p \in pairs(e)} : e \in entities},
        backward_actors |-> (entities \cap self.actors)
                            \cup UNION {{p[2] : p \in pairs(e)} : e \in entities}]

_collect_actors_keep_unknown(self, entities) ==
    LET pairs(e) == IF e \in self.actors THEN {}
                    ELSE {p \in edge_pairs(self) : e \in self.edges[p[1]][p[2]]}
    IN [forward_actors |-> (entities \cap ActorNames)
                           \cup UNION {{p[2] : p \in pairs(e)} : e \in entities},
        backward_actors |-> (entities \cap ActorNames)
                            \cup UNION {{p[1] : p \in pairs(e)} : e \in entities}]

_collect_actors_for_entities(self, entities) ==
    LET pairs(e) == IF e \in self.actors THEN {}
                    ELSE {p \in edge_pairs(self) : e \in self.edges[p[1]][p[2]]}
    IN [forward_actors |-> (entities \cap self.actors)
                           \cup UNION {{p[2] : p \in pairs(e)} : e \in entities},
        backward_actors |-> (entities \cap self.actors)
                            \cup UNION {{p[1] : p \in pairs(e)} : e \in entities}]

----------------------------------------------------------------------------
(* _dfs_graph_scan, _forward_scan, _backward_scan                          *)
(* The three methods share one loop; they differ in the for loops of its   *)
(* body: _forward_scan has the loop over self.edges[actor], _backward_scan *)
(* the loop over self.reverse_edges[actor], _dfs_graph_scan both.          *)

Scans == {"_dfs_graph_scan", "_forward_scan", "_backward_scan"}

follow_edges_forward_only(kind) == kind \in {"_forward_scan"}

follow_edges(kind) == kind \in {"_dfs_graph_scan", "_forward_scan"}

follow_reverse_forward_only(kind) == kind \in {"_backward_scan"}

follow_reverse(kind) == kind \in {"_dfs_graph_scan", "_backward_scan"}

\* A scan in progress: st.self, st.worklist, st.visited_actors.
scan_start(self, start, order) ==
    [self |-> self, worklist |-> order, visited_actors |-> start]

\* worklist.pop(-1)
popped(st) == st.worklist[Len(st.worklist)]

\* self.edges[actor] and self.reverse_edges[actor] are defaultdict reads
after_reads(kind, st) ==
    [edges |-> IF follow_edges(kind)
               THEN touch(st.self.edges, popped(st), EmptyMap) ELSE st.self.edges,
     reverse_edges |-> IF follow_reverse(kind)
                       THEN touch(st.self.reverse_edges, popped(st), {})
                       ELSE st.self.reverse_edges,
     actors |-> st.self.actors]

\* the actors the first for loop appends
new_targets(kind, st) ==
    IF follow_edges(kind)
    THEN DOMAIN after_reads(kind, st).edges[popped(st)] \ st.visited_actors
    ELSE {}

new_sources_stale_visited(kind, st) ==
    IF follow_reverse(kind)
    THEN after_reads(kind, st).reverse_edges[popped(st)] \ st.visited_actors
    ELSE {}

\* the actors the second for loop appends
new_sources(kind, st) ==
    IF follow_reverse(kind)
    THEN after_reads(kind, st).reverse_edges[popped(st)]
            \ (st.visited_actors \cup new_targets(kind, st))
    ELSE {}

scan_iteration_no_mark(kind, st, targets, sources) ==
    [self |-> after_reads(kind, st),
     worklist |-> SubSeq(st.worklist, 1, Len(st.worklist) - 1) \o targets \o sources,
     visited_actors |-> st.visited_actors]

\* One iteration of `while worklist`; targets and sources enumerate
\* new_targets and new_sources in the order the for loops meet them.
scan_iteration(kind, st, targets, sources) ==
    [self |-> after_reads(kind, st),
     worklist |-> SubSeq(st.worklist, 1, Len(st.worklist) - 1) \o targets \o sources,
     visited_actors |-> st.visited_actors \cup new_targets(kind, st) \cup new_sources(kind, st)]

RECURSIVE scan_loop(_, _)
scan_loop(kind, st) ==
    IF st.worklist = <<>> THEN st
    ELSE scan_loop(kind, scan_iteration(kind, st, SomeOrder(new_targets(kind, st)),
                                        SomeOrder(new_sources(kind, st))))

_dfs_graph_scan(self, start) ==
    scan_loop("_dfs_graph_scan", scan_start(self, start, SomeOrder(start)))

_forward_scan(self, start) ==
    scan_loop("_forward_scan", scan_start(self, start, SomeOrder(start)))

_backward_scan(self, start) ==
    scan_loop("_backward_scan", scan_start(self, start, SomeOrder(start)))

----------------------------------------------------------------------------
(* make_subgraph_related_to *)

\* start_forward_at_actors.union(start_backward_at_actors)
loose_start(starts) == starts.forward_actors \cup starts.backward_actors

\* self after the scans, and seen_actors
scan_related(self, entities, is_tight) ==
    LET starts == _collect_actors_for_entities(self, entities)
    IN IF is_tight
       THEN LET f == _forward_scan(self, starts.forward_actors)
                b == _backward_scan(f.self, starts.backward_actors)
            IN [self |-> b.self, seen_actors |-> f.visited_actors \cup b.visited_actors]
       ELSE LET d == _dfs_graph_scan(self, loose_start(starts))
            IN [self |-> d.self, seen_actors |-> d.visited_actors]

build_resulting_graph_any_target(self, seen) ==
    LET kept(s) == DOMAIN self.edges[s]
        sources == {s \in DOMAIN self.edges \cap seen : kept(s) # {}}
    IN [edges |-> [s \in sources |-> [t \in kept(s) |-> self.edges[s][t]]],
        reverse_edges |-> [t \in UNION {kept(s) : s \in sources} |->
                              {s \in sources : t \in kept(s)}],
        actors |-> seen]

\* The loop that fills resulting_graph, and resulting_graph.actors = seen_actors
build_resulting_graph(self, seen) ==
    LET kept(s) == DOMAIN self.edges[s] \cap seen
        sources == {s \in DOMAIN self.edges \cap seen : kept(s) # {}}
    IN [edges |-> [s \in sources |-> [t \in kept(s) |-> self.edges[s][t]]],
        reverse_edges |-> [t \in UNION {kept(s) : s \in sources} |->
                              {s \in sources : t \in kept(s)}],
        actors |-> seen]

make_subgraph_related_to(self, entities, is_tight) ==
    LET r == scan_related(self, entities, is_tight)
    IN [self |-> r.self, seen_actors |-> r.seen_actors,
        resulting_graph |-> build_resulting_graph(r.self, r.seen_actors)]

----------------------------------------------------------------------------
(* State machine *)

TypeOK ==
    /\ pc \in {"new", "ready", "extracted", "scanning", "returned"}
    /\ graph.actors \subseteq ActorNames
    /\ resulting_graph.actors \subseteq ActorNames
    /\ leapp_entities \subseteq Entities
    /\ tight \in BOOLEAN
    /\ built \in BOOLEAN
    /\ depth \in 0..MaxDepth

\* graph = RepositoryGraph(): nothing was built, extracted or scanned yet.
Init ==
    /\ actor_definitions = <<>>
    /\ graph = RepositoryGraph
    /\ resulting_graph = RepositoryGraph
    /\ leapp_entities = {}
    /\ tight = FALSE
    /\ seen_actors = {}
    /\ pc = "new"
    /\ built = FALSE
    /\ depth = 0
    /\ scan = "_dfs_graph_scan"
    /\ start_at_actors = {}
    /\ worklist = <<>>
    /\ visited_actors = {}
    /\ pushed = [a \in ActorNames |-> 0]

scan_vars == <<scan, start_at_actors, worklist, visited_actors, pushed>>
call_vars == <<resulting_graph, leapp_entities, tight, seen_actors>>

\* graph = construct_graph_from_actors(defs)
Construct(defs) ==
    /\ pc = "new"
    /\ graph' = construct_graph_from_actors(defs)
    /\ pc' = "ready"
    /\ built' = TRUE
    /\ UNCHANGED <<actor_definitions, depth, call_vars, scan_vars>>

\* graph.add_edge(source_actor, msg, target_actor), called from outside the builder
AddEdge(source_actor, msg, target_actor) ==
    /\ pc \in {"new", "ready"}
    /\ Cardinality(iter_edges(graph)) < MaxEdges
    /\ graph' = add_edge(graph, source_actor, msg, target_actor)
    /\ pc' = "ready"
    /\ built' = FALSE
    /\ UNCHANGED <<actor_definitions, depth, call_vars, scan_vars>>

\* resulting_graph = graph.make_subgraph_related_to(entities, tight=is_tight)
MakeSubgraphRelatedTo(entities, is_tight) ==
    /\ pc = "ready"
    /\ LET r == make_subgraph_related_to(graph, entities, is_tight)
       IN /\ graph' = r.self
          /\ resulting_graph' = r.resulting_graph
          /\ seen_actors' = r.seen_actors
    /\ leapp_entities' = entities
    /\ tight' = is_tight
    /\ pc' = "extracted"
    /\ UNCHANGED <<actor_definitions, built, depth, scan_vars>>

\* The caller drops the result; the graph the call was made on stays in use.
Discard ==
    /\ pc = "extracted"
    /\ pc' = "ready"
    /\ resulting_graph' = RepositoryGraph
    /\ leapp_entities' = {}
    /\ tight' = FALSE
    /\ seen_actors' = {}
    /\ UNCHANGED <<actor_definitions, graph, built, depth, scan_vars>>

\* graph = graph.make_subgraph_related_to(...), as in cli: the next call is
\* made on the result.
Descend ==
    /\ pc = "extracted"
    /\ depth < MaxDepth
    /\ graph' = resulting_graph
    /\ depth' = depth + 1
    /\ pc' = "ready"
    /\ resulting_graph' = RepositoryGraph
    /\ leapp_entities' = {}
    /\ tight' = FALSE
    /\ seen_actors' = {}
    /\ UNCHANGED <<actor_definitions, built, scan_vars>>

Next ==
    \/ /\ pc = "new"
       /\ \E defs \in ActorDefinitionLists :
             /\ Cardinality(iter_edges(construct_graph_from_actors(defs))) <= MaxEdges
             /\ Construct(defs)
    \/ \E s, t \in ActorNames, m \in MsgTypes : AddEdge(s, m, t)
    \/ \E E \in EntitySets, is_tight \in BOOLEAN : MakeSubgraphRelatedTo(E, is_tight)
    \/ Discard
    \/ Descend

Spec == Init /\ [][Next]_vars

----------------------------------------------------------------------------
(* construct_graph_from_actors as a function of its input *)

InitBuild ==
    /\ actor_definitions \in ActorDefinitionLists
    /\ graph = RepositoryGraph
    /\ resulting_graph = RepositoryGraph
    /\ leapp_entities = {}
    /\ tight = FALSE
    /\ seen_actors = {}
    /\ pc = "new"
    /\ built = FALSE
    /\ depth = 0
    /\ scan = "_dfs_graph_scan"
    /\ start_at_actors = {}
    /\ worklist = <<>>
    /\ visited_actors = {}
    /\ pushed = [a \in ActorNames |-> 0]

NextBuild == Construct(actor_definitions)

SpecBuild == InitBuild /\ [][NextBuild]_vars

----------------------------------------------------------------------------
(* The scans, one loop iteration per step *)

count(seq, a) == Cardinality({i \in DOMAIN seq : seq[i] = a})

\* worklist = list(start_at_actors); visited_actors = set(start_at_actors)
BeginScan(kind, start, order) ==
    /\ pc = "ready"
    /\ scan' = kind
    /\ start_at_actors' = start
    /\ worklist' = order
    /\ visited_actors' = start
    /\ pushed' = [a \in ActorNames |-> count(order, a)]
    /\ pc' = "scanning"
    /\ UNCHANGED <<actor_definitions, graph, built, depth, call_vars>>

\* one iteration of the while loop
ScanStep ==
    /\ pc = "scanning"
    /\ worklist # <<>>
    /\ LET st == [self |-> graph, worklist |-> worklist, visited_actors |-> visited_actors]
       IN \E targets \in Orders(new_targets(scan, st)), sources \in Orders(new_sources(scan, st)) :
            LET nxt == scan_iteration(scan, st, targets, sources)
            IN /\ graph' = nxt.self
               /\ worklist' = nxt.worklist
               /\ visited_actors' = nxt.visited_actors
               /\ pushed' = [a \in ActorNames |->
                               pushed[a] + count(targets, a) + count(sources, a)]
    /\ UNCHANGED <<actor_definitions, pc, built, depth, call_vars, scan, start_at_actors>>

\* return visited_actors
ScanReturn ==
    /\ pc = "scanning"
    /\ worklist = <<>>
    /\ pc' = "returned"
    /\ UNCHANGED <<actor_definitions, graph, built, depth, call_vars, scan_vars>>

NextScan ==
    \/ \E s, t \in ActorNames, m \in MsgTypes : AddEdge(s, m, t)
    \/ \E kind \in Scans, start \in SUBSET graph.actors :
          \E order \in Orders(start) : BeginScan(kind, start, order)
    \/ ScanStep
    \/ ScanReturn

SpecScan == Init /\ [][NextScan]_vars /\ WF_vars(ScanStep) /\ WF_vars(ScanReturn)

----------------------------------------------------------------------------
(* Reachability stated on the forward edge map alone *)

Neighbours(g, a, fwd, bwd) ==
    (IF fwd THEN {p[2] : p \in {q \in edge_pairs(g) : q[1] = a}} ELSE {})
    \cup (IF bwd THEN {p[1] : p \in {q \in edge_pairs(g) : q[2] = a}} ELSE {})

\* Reflexive-transitive closure of S over the chosen edge directions
RECURSIVE Reachable(_, _, _, _)
Reachable(g, S, fwd, bwd) ==
    LET N == S \cup UNION {Neighbours(g, a, fwd, bwd) : a \in S}
    IN IF N = S THEN S ELSE Reachable(g, N, fwd, bwd)

Labels(g, p, c) ==
    IF <<p, c>> \in edge_pairs(g) THEN g.edges[p][c] ELSE {}

Carrying(g, e) == {p \in edge_pairs(g) : e \in g.edges[p[1]][p[2]]}

\* The seed sets as the specification defines them
ForwardSeeds(g, E) ==
    (E \cap g.actors) \cup {p[2] : p \in UNION {Carrying(g, e) : e \in E \ g.actors}}

BackwardSeeds(g, E) ==
    (E \cap g.actors) \cup {p[1] : p \in UNION {Carrying(g, e) : e \in E \ g.actors}}

Extracted == pc = "extracted"

----------------------------------------------------------------------------
(* construct_graph_from_actors *)

UniqueNames(defs) ==
    \A i, j \in DOMAIN defs : defs[i].class_name = defs[j].class_name => i = j

Speaks(defs, p, m, c) ==
    \E i, j \in DOMAIN defs :
        /\ defs[i].class_name = p /\ m \in defs[i].produces
        /\ defs[j].class_name = c /\ m \in defs[j].consumes

\* C1: for a descriptor list with unique names, iter_edges of the built graph
\* yields (p, m, c) exactly when m is in produces(p) and in consumes(c); an
\* unspoken message type labels no edge and a component that produces and
\* consumes m gets the self-loop (p, m, p).
C1_EdgeCorrectness ==
    (pc = "ready" /\ UniqueNames(actor_definitions)) =>
        iter_edges(graph) =
            {t \in ActorNames \X MsgTypes \X ActorNames :
                Speaks(actor_definitions, t[1], t[2], t[3])}

C1_Witness ==
    /\ pc = "ready"
    /\ UniqueNames(actor_definitions)
    /\ Len(actor_definitions) = 2
    /\ \E t \in iter_edges(graph) : t[1] = t[3]
    /\ \E t \in iter_edges(graph) : t[1] # t[3]
    /\ \E i \in DOMAIN actor_definitions : \E m \in actor_definitions[i].produces :
          \A j \in DOMAIN actor_definitions : m \notin actor_definitions[j].consumes

HasDuplicate(defs) == ~UniqueNames(defs)

Later(defs, i) == {j \in DOMAIN defs : j > i /\ defs[j].class_name = defs[i].class_name}

SameNamed(defs, i) == {j \in DOMAIN defs : defs[j].class_name = defs[i].class_name}

RECURSIVE SelectLast(_, _, _)
SelectLast(defs, i, merge) ==
    IF i > Len(defs) THEN <<>>
    ELSE IF Later(defs, i) # {} THEN SelectLast(defs, i + 1, merge)
    ELSE <<IF merge
           THEN [class_name |-> defs[i].class_name,
                 produces |-> UNION {defs[j].produces : j \in SameNamed(defs, i)},
                 consumes |-> UNION {defs[j].consumes : j \in SameNamed(defs, i)}]
           ELSE defs[i]>> \o SelectLast(defs, i + 1, merge)

\* the list with every descriptor removed that has a later one of the same name
EarlierRemoved(defs) == SelectLast(defs, 1, FALSE)

\* the same, the kept descriptor taking over the removed ones' produces and consumes
EarlierMerged(defs) == SelectLast(defs, 1, TRUE)

\* C5 as stated: with two descriptors of the same name the built graph equals
\* the graph built from the list with the earlier one removed (last write wins).
C5_LastWriteWins ==
    (pc = "ready" /\ HasDuplicate(actor_definitions)) =>
        graph = construct_graph_from_actors(EarlierRemoved(actor_definitions))

\* C5 amended: with two descriptors of the same name the contributions add up:
\* the built graph equals the graph built from the list in which the earlier
\* descriptor is removed and its produces and consumes are added to the later one.
C5_SameNameMerges ==
    (pc = "ready" /\ HasDuplicate(actor_definitions)) =>
        /\ graph = construct_graph_from_actors(EarlierMerged(actor_definitions))
        /\ iter_edges(graph) =
              {t \in ActorNames \X MsgTypes \X ActorNames :
                  Speaks(actor_definitions, t[1], t[2], t[3])}

C5_Witness ==
    /\ pc = "ready"
    /\ HasDuplicate(actor_definitions)
    /\ graph # construct_graph_from_actors(EarlierRemoved(actor_definitions))
    /\ iter_edges(graph) # {}

----------------------------------------------------------------------------
(* make_subgraph_related_to *)

OtherMode == make_subgraph_related_to(graph, leapp_entities, ~tight).resulting_graph

\* C2: for the seed set of a call, the node set of the loose-mode subgraph is
\* a superset of the node set of the tight-mode subgraph of the same graph.
C2_LooseSupersetOfTight ==
    Extracted =>
        IF tight THEN resulting_graph.actors \subseteq OtherMode.actors
        ELSE OtherMode.actors \subseteq resulting_graph.actors

C2_Witness ==
    /\ Extracted
    /\ ~tight
    /\ OtherMode.actors # {}
    /\ OtherMode.actors # resulting_graph.actors
    /\ Unknown \in leapp_entities

\* C3: the returned graph has the edge (p, c) exactly when p and c are in the
\* visited set and (p, c) is an edge of the source graph, and every retained
\* edge has the label set it has in the source graph.
C3_InducedSubgraph ==
    [][Extracted' =>
        /\ edge_pairs(resulting_graph') =
              {p \in edge_pairs(graph) : p[1] \in seen_actors' /\ p[2] \in seen_actors'}
        /\ \A p \in edge_pairs(resulting_graph') :
              resulting_graph'.edges[p[1]][p[2]] = Labels(graph, p[1], p[2])
        /\ resulting_graph'.actors = seen_actors']_vars

C3_Witness ==
    /\ Extracted
    /\ edge_pairs(resulting_graph) # {}
    /\ edge_pairs(resulting_graph) # edge_pairs(graph)
    /\ \E p \in edge_pairs(graph) : p[1] \in seen_actors /\ p[2] \notin seen_actors

\* C4 as stated: make_subgraph_related_to leaves the source graph's node set,
\* forward edge mapping and reverse mapping equal to what they were before.
C4_SourceNotMutated ==
    [][Extracted' => graph' = graph]_vars

ReverseConsistent(g) ==
    \A p, c \in ActorNames :
        (c \in DOMAIN g.reverse_edges /\ p \in g.reverse_edges[c])
        <=> (p \in DOMAIN g.edges /\ c \in DOMAIN g.edges[p] /\ g.edges[p][c] # {})

\* C6: in every graph reached by add_edge calls and in every extracted graph,
\* p is in reverse_edges[c] iff the forward map holds an edge (p, c) with a
\* non-empty label set.
C6_ReverseIndexConsistent ==
    ReverseConsistent(graph) /\ ReverseConsistent(resulting_graph)

C6_Witness ==
    /\ Extracted
    /\ ~built
    /\ edge_pairs(resulting_graph) # {}
    /\ edge_pairs(resulting_graph) # edge_pairs(graph)
    /\ \E c \in DOMAIN graph.reverse_edges : graph.reverse_edges[c] = {}

Endpoints(g) == {p[1] : p \in edge_pairs(g)} \cup {p[2] : p \in edge_pairs(g)}

\* C7: in a graph built by construct_graph_from_actors and in every graph
\* extracted from it by successive make_subgraph_related_to calls, the node
\* set is exactly the set of sources and targets of the graph's edges.
C7_NodesAreEndpoints ==
    built => /\ graph.actors = Endpoints(graph)
             /\ resulting_graph.actors = Endpoints(resulting_graph)

C7_Witness ==
    /\ built
    /\ Extracted
    /\ depth >= 1
    /\ resulting_graph.actors # {}
    /\ leapp_entities \cap graph.actors # {}
    /\ leapp_entities \ (graph.actors \cup UNION {Labels(graph, p[1], p[2]) : p \in edge_pairs(graph)}) # {}

\* C8: in tight mode the result node set is R_fwd(F) \cup R_bwd(B) with F and
\* B the seed sets: a node of the graph goes into both (and is not read as a
\* message type), any other entity adds the sources of the edges carrying it
\* to B and their targets to F; seeds that match nothing give an empty graph.
C8_TightReachability ==
    [][(Extracted' /\ tight') =>
        /\ resulting_graph'.actors =
              Reachable(graph, ForwardSeeds(graph, leapp_entities'), TRUE, FALSE)
              \cup Reachable(graph, BackwardSeeds(graph, leapp_entities'), FALSE, TRUE)
        /\ (\A e \in leapp_entities' : e \notin graph.actors /\ Carrying(graph, e) = {})
              => resulting_graph' = RepositoryGraph]_vars

C8_Witness ==
    /\ Extracted
    /\ tight
    /\ \E e \in leapp_entities \cap graph.actors : Carrying(graph, e) # {}
    /\ \E e \in leapp_entities \ graph.actors : Carrying(graph, e) # {}
    /\ resulting_graph.actors # {}

\* C9: in loose mode the result node set is the union of the weakly connected
\* components of the source graph that contain a forward or backward seed.
C9_LooseComponents ==
    [][(Extracted' /\ ~tight') =>
        resulting_graph'.actors =
            {n \in graph.actors :
                \E s \in ForwardSeeds(graph, leapp_entities')
                         \cup BackwardSeeds(graph, leapp_entities') :
                    n \in Reachable(graph, {s}, TRUE, TRUE)}]_vars

C9_Witness ==
    /\ Extracted
    /\ ~tight
    /\ resulting_graph.actors # graph.actors
    /\ resulting_graph.actors #
          ForwardSeeds(graph, leapp_entities) \cup BackwardSeeds(graph, leapp_entities)
    /\ resulting_graph.actors #
          Reachable(graph, ForwardSeeds(graph, leapp_entities)
                           \cup BackwardSeeds(graph, leapp_entities), TRUE, FALSE)

----------------------------------------------------------------------------
(* The worklist scans *)

ScanClosure ==
    Reachable(graph, start_at_actors, scan # "_backward_scan", scan # "_forward_scan")

\* C10: every scan terminates, also on cycles and self-loops; no actor is put
\* on the worklist twice; the visited set returned is the closure of the start
\* set, whatever the order in which the actors are met and popped.
C10_ScansTerminate ==
    /\ [](\A a \in ActorNames : pushed[a] <= 1)
    /\ [](pc = "returned" => visited_actors = ScanClosure)
    /\ (pc = "scanning") ~> (pc = "returned")

C10_Witness ==
    /\ pc = "returned"
    /\ \E a, b \in ActorNames :
          /\ a # b
          /\ {<<a, b>>, <<b, a>>} \subseteq edge_pairs(graph)
          /\ start_at_actors = {a}
          /\ visited_actors = {a, b}

====
